---- MODULE Spec2Model ----
(***************************************************************************)
(* Model of src/src/kariba_moismcts.py: the Kariba rules engine, the       *)
(* per-player information-set trees (Node, Tree), the Simulators           *)
(* coordinator and the moismcts search driver.                             *)
(*                                                                         *)
(* Vectors (numpy int arrays of length n_species) are functions over       *)
(* 0 .. n_species-1.  A tree's nodes live in a sequence; a node refers to  *)
(* its parent and children by index into that sequence (0 = no parent).    *)
(***************************************************************************)
EXTENDS Integers, Sequences, FiniteSets, TLC

\* ---------------------------------------------------------------- bounds
MaxSpecies == 2     \* n_species of the constructed game ranges over 1 .. MaxSpecies
MaxDeck    == 3     \* sum of the deck handed to the constructor is at most MaxDeck
MaxHand    == 2     \* max_n_hand ranges over 1 .. MaxHand
MaxIter    == 3     \* the n of moismcts(root_state, n) ranges over 1 .. MaxIter

\* ------------------------------------------------------------- variables
VARIABLES
    real,        \* the caller's Kariba object, played before the search is asked
    pc,          \* position of the caller / of moismcts
    n,           \* moismcts parameter n (0 while the loop has not read its last value)
    i,           \* number of completed iterations of the for loop
    reset_state, \* Simulators.reset_state
    game,        \* Simulators.game: the Kariba object number i, the live game
    tree_dict,   \* Simulators.tree_dict: player -> Tree
    abandoned,   \* number -> an earlier Simulators.game object some Tree.game still refers to
    event,       \* the action event chosen last (by the caller or by select_action)
    result,      \* what moismcts returned, or the exception it raised
    \* history variables: they record what happened and steer nothing
    prev,        \* the Kariba object as it was before the last action event was applied
    obs,         \* player -> what Tree.apply_event did with the last event
    visited,     \* player -> nodes the cursor has been at in the current simulated game
    passes,      \* player -> per node, the completed iterations whose cursor was at it
    moves,       \* player -> the cursor moves made in selecting mode, over all games
    made,        \* player -> nodes appended in the current simulated game
    flips,       \* player -> switches to rollout in the current simulated game
    wins,        \* player -> per node, the completed iterations at it that the player won
    turns,       \* number of next_turn calls in the current simulated game
    drawn        \* the deck_draw event applied last (by the caller or by the search)

history == <<prev, obs, visited, passes, moves, made, flips, wins, turns, drawn>>
search  == <<n, i, reset_state, game, tree_dict, abandoned, result>>
vars    == <<real, pc, event, search, history>>

\* ------------------------------------------------------- vector helpers
player_names == <<"player0", "player1">>
Players      == {player_names[k] : k \in 1 .. Len(player_names)}

Zeros(n_dim) == [j \in 0 .. n_dim - 1 |-> 0]

one_hot(idx, n_dim) == [j \in 0 .. n_dim - 1 |-> IF j = idx THEN 1 ELSE 0]

Scale(k, v) == [j \in DOMAIN v |-> k * v[j]]
VecAdd(a, b) == [j \in DOMAIN a |-> a[j] + b[j]]
VecSub(a, b) == [j \in DOMAIN a |-> a[j] - b[j]]

SetMax(S) == CHOOSE x \in S : \A y \in S : y <= x
SetMin(S) == CHOOSE x \in S : \A y \in S : x <= y

RECURSIVE SumTo(_, _)
SumTo(v, k) == IF k < 0 THEN 0 ELSE v[k] + SumTo(v, k - 1)
np_sum(v) == SumTo(v, SetMax(DOMAIN v))

nonzero(v) == {j \in DOMAIN v : v[j] # 0}

RECURSIVE SumOver(_, _)
SumOver(f, S) == IF S = {} THEN 0
                 ELSE LET x == CHOOSE y \in S : TRUE IN f[x] + SumOver(f, S \ {x})

\* ---------------------------------------------------------------- Kariba
Kariba(deck, whose_turn_, n_species, max_n_hand) ==
    [ n_species   |-> n_species,
      max_n_hand  |-> max_n_hand,
      whose_turn_ |-> whose_turn_,
      n_players   |-> Len(player_names),
      deck        |-> deck,
      field       |-> Zeros(n_species),
      hands       |-> [player \in Players |-> Zeros(n_species)],
      scoreboard  |-> [player \in Players |-> 0] ]

whose_turn(self) == player_names[self.whose_turn_ + 1]

\* who_next_turn_ that leaves the turn with the same player
who_next_turn_stays(self) == self.whose_turn_

who_next_turn_(self) == (self.whose_turn_ + 1) % self.n_players

\* is_final with all() where the code has any()
is_final_all_hands(self) ==
    /\ np_sum(self.deck) = 0
    /\ \A player \in Players : np_sum(self.hands[player]) = 0

is_final(self) ==
    /\ np_sum(self.deck) = 0
    /\ \E player \in Players : np_sum(self.hands[player]) = 0

\* util.keywithmaxval: the first key, in insertion order, holding the maximum
keywithmaxval(d) ==
    LET best == SetMax({d[player] : player \in Players})
        k    == SetMin({j \in 1 .. Len(player_names) : d[player_names[j]] = best})
    IN  player_names[k]

leading_player(self) == keywithmaxval(self.scoreboard)

next_turn(self) == [self EXCEPT !.whose_turn_ = who_next_turn_(self)]

RECURSIVE VecSumOver(_, _, _)
VecSumOver(hands, S, acc) ==
    IF S = {} THEN acc
    ELSE LET x == CHOOSE y \in S : TRUE
         IN  VecSumOver(hands, S \ {x}, VecAdd(acc, hands[x]))

\* jungle that forgets the other players' hands
jungle_deck_only(self, player) == self.deck

jungle(self, player) == VecSumOver(self.hands, Players \ {player}, self.deck)

\* fear_animal without the wrap to the last species for action_animal == 0
fear_animal_no_wrap(self, field, action_animal) ==
    SetMax({idx \in nonzero(field) : idx < action_animal} \cup {-1})

fear_animal_of(self, field, action_animal) ==
    IF action_animal = 0
    THEN self.n_species - 1
    ELSE SetMax({idx \in nonzero(field) : idx < action_animal} \cup {-1})

\* apply_event that scores the chased cards and leaves them on the field
Kariba_apply_event_keeps_chased(self, ev) ==
    IF ev.kind = "deck_draw"
    THEN [self EXCEPT !.deck = VecSub(@, ev.cards),
                      !.hands[ev.who] = VecAdd(@, ev.cards)]
    ELSE IF ev.kind = "action"
    THEN LET moved == [self EXCEPT !.hands[ev.who] = VecSub(@, ev.cards),
                                   !.field = VecAdd(@, ev.cards)]
             action_animal == SetMin(nonzero(ev.cards))
         IN  IF moved.field[action_animal] >= 3
             THEN LET fear_animal == fear_animal_of(moved, moved.field, action_animal)
                  IN  IF fear_animal >= 0
                      THEN [moved EXCEPT
                              !.scoreboard[whose_turn(moved)] = @ + moved.field[fear_animal]]
                      ELSE moved
             ELSE moved
    ELSE self

\* apply_event that puts the played cards on the field and leaves them in the hand
Kariba_apply_event_keeps_hand(self, ev) ==
    IF ev.kind = "deck_draw"
    THEN [self EXCEPT !.deck = VecSub(@, ev.cards),
                      !.hands[ev.who] = VecAdd(@, ev.cards)]
    ELSE IF ev.kind = "action"
    THEN LET moved == [self EXCEPT !.field = VecAdd(@, ev.cards)]
             action_animal == SetMin(nonzero(ev.cards))
         IN  IF moved.field[action_animal] >= 3
             THEN LET fear_animal == fear_animal_of(moved, moved.field, action_animal)
                  IN  IF fear_animal >= 0
                      THEN [moved EXCEPT
                              !.scoreboard[whose_turn(moved)] = @ + moved.field[fear_animal],
                              !.field[fear_animal] = 0]
                      ELSE moved
             ELSE moved
    ELSE self

Kariba_apply_event(self, ev) ==
    IF ev.kind = "deck_draw"
    THEN [self EXCEPT !.deck = VecSub(@, ev.cards),
                      !.hands[ev.who] = VecAdd(@, ev.cards)]
    ELSE IF ev.kind = "action"
    THEN LET moved == [self EXCEPT !.hands[ev.who] = VecSub(@, ev.cards),
                                   !.field = VecAdd(@, ev.cards)]
             action_animal == SetMin(nonzero(ev.cards))
         IN  IF moved.field[action_animal] >= 3
             THEN LET fear_animal == fear_animal_of(moved, moved.field, action_animal)
                  IN  IF fear_animal >= 0
                      THEN [moved EXCEPT
                              !.scoreboard[whose_turn(moved)] = @ + moved.field[fear_animal],
                              !.field[fear_animal] = 0]
                      ELSE moved
             ELSE moved
    ELSE self

Action(player, cards) == [kind |-> "action", who |-> player, cards |-> cards]
DeckDraw(player, cards) == [kind |-> "deck_draw", who |-> player, cards |-> cards]

\* cards_list with range(1, hand[idx]) where the code has range(1, hand[idx]+1)
RECURSIVE cards_list_short(_, _, _)
cards_list_short(hand, idx, n_species) ==
    IF idx >= n_species THEN <<>>
    ELSE [k \in 1 .. hand[idx] - 1 |-> Scale(k, one_hot(idx, n_species))]
         \o cards_list_short(hand, idx + 1, n_species)

\* cards_list of allowed_actions: for idx in range(n_species) for n in range(1, hand[idx]+1)
RECURSIVE cards_list(_, _, _)
cards_list(hand, idx, n_species) ==
    IF idx >= n_species THEN <<>>
    ELSE [k \in 1 .. hand[idx] |-> Scale(k, one_hot(idx, n_species))]
         \o cards_list(hand, idx + 1, n_species)

allowed_actions(self, player) ==
    LET cl == cards_list(self.hands[player], 0, self.n_species)
    IN  [k \in 1 .. Len(cl) |-> Action(player, cl[k])]

\* the sampling loop of random_card_draw: every species with a positive
\* probability (deck - cards)[idx] / sum(deck - cards) can be the next sample
RECURSIVE draw_loop(_, _, _)
draw_loop(deck, cards, todo) ==
    IF todo <= 0 THEN {cards}
    ELSE UNION { draw_loop(deck, VecAdd(cards, one_hot(idx, Cardinality(DOMAIN deck))), todo - 1)
                 : idx \in {j \in DOMAIN deck : deck[j] - cards[j] > 0} }

\* the denominators np.sum(self.deck - cards) that the samples of the loop divide by
RECURSIVE draw_pools(_, _, _)
draw_pools(deck, cards, todo) ==
    IF todo <= 0 THEN {}
    ELSE {np_sum(VecSub(deck, cards))} \cup
         UNION { draw_pools(deck, VecAdd(cards, one_hot(idx, Cardinality(DOMAIN deck))), todo - 1)
                 : idx \in {j \in DOMAIN deck : deck[j] - cards[j] > 0} }

\* n_to_draw without the min against the cards left in the deck
n_to_draw_ignores_deck(self) ==
    self.max_n_hand - np_sum(self.hands[whose_turn(self)])

n_to_draw(self) ==
    LET n_hand == np_sum(self.hands[whose_turn(self)])
        left   == np_sum(self.deck)
    IN  IF self.max_n_hand - n_hand < left THEN self.max_n_hand - n_hand ELSE left

\* random_card_draw that never takes a card
random_card_draw_nothing(self) ==
    { DeckDraw(whose_turn(self), Zeros(self.n_species)) }

random_card_draw(self) ==
    { DeckDraw(whose_turn(self), cards)
      : cards \in draw_loop(self.deck, Zeros(self.n_species), n_to_draw(self)) }

\* ------------------------------------------------------------------ Node
NoEvent(n_species) == [kind |-> "none", who |-> "nobody", cards |-> Zeros(n_species)]

\* untried_actions is None until select_action enumerates it; the shuffled
\* list followed by pop() is a set from which any element may be removed next
NoneList == [is_None |-> TRUE, items |-> {}]

Node(g, player, ev, parent) ==
    [ player              |-> player,
      parent              |-> parent,
      children            |-> <<>>,
      hand                |-> g.hands[player],
      field               |-> g.field,
      jungle              |-> jungle(g, player),
      n                   |-> 0,
      is_root_node        |-> parent = 0,
      is_post_action_node |-> ev.kind = "action" /\ ev.who = player,
      untried_actions     |-> NoneList,
      action              |-> IF ev.kind = "action" /\ ev.who = player
                              THEN ev ELSE NoEvent(g.n_species),
      w                   |-> 0 ]

\* is_equivalent_node that compares the field and nothing a player alone sees
is_equivalent_node_by_field(node_a, node_b) ==
    /\ node_a.player = node_b.player
    /\ node_a.field = node_b.field

is_equivalent_node(node_a, node_b) ==
    /\ node_a.player = node_b.player
    /\ node_a.is_post_action_node = node_a.is_post_action_node
    /\ node_a.hand = node_b.hand
    /\ node_a.field = node_b.field
    /\ node_a.jungle = node_b.jungle

\* round(c * sqrt(2 * ln(N) / n) * 10^6) with c = sqrt(2), row N, column n
ExploreMicro ==
  << <<0, 0, 0, 0, 0, 0, 0, 0, 0>>,
     <<1665109, 1177410, 961351, 832555, 744659, 679778, 629352, 588705, 555036>>,
     <<2096294, 1482304, 1210296, 1048147, 937491, 855809, 792325, 741152, 698765>>,
     <<2354820, 1665109, 1359556, 1177410, 1053108, 961351, 890038, 832555, 784940>>,
     <<2537272, 1794123, 1464895, 1268636, 1134703, 1035837, 958999, 897061, 845757>>,
     <<2677132, 1893018, 1545643, 1338566, 1197250, 1092935, 1011861, 946509, 892377>>,
     <<2789918, 1972770, 1610760, 1394959, 1247689, 1138979, 1054490, 986385, 929973>>,
     <<2884054, 2039334, 1665109, 1442027, 1289788, 1177410, 1090070, 1019667, 961351>>,
     <<2964608, 2096294, 1711617, 1482304, 1325813, 1210296, 1120516, 1048147, 988203>> >>

\* Node.ucb in millionths, for a post-action node with n >= 1 whose parent has n >= 1
ucb(node, parent_n) ==
    (node.w * 1000000) \div node.n + ExploreMicro[parent_n][node.n]

\* backpropagate that counts a win for every post-action node, whoever won
Node_backpropagate_one_any_winner(node, winner) ==
    [node EXCEPT !.n = @ + 1,
                 !.w = IF node.is_post_action_node THEN @ + 1 ELSE @]

Node_backpropagate_one(node, winner) ==
    [node EXCEPT !.n = @ + 1,
                 !.w = IF node.is_post_action_node /\ winner = node.player
                       THEN @ + 1 ELSE @]

\* backpropagate that stops at the node it starts from
Node_backpropagate_no_parent(nodes, idx, winner) ==
    [nodes EXCEPT ![idx] = Node_backpropagate_one(@, winner)]

\* Node.backpropagate: this node, then its parent, up to the root
RECURSIVE Node_backpropagate(_, _, _)
Node_backpropagate(nodes, idx, winner) ==
    LET bumped == [nodes EXCEPT ![idx] = Node_backpropagate_one(@, winner)]
    IN  IF nodes[idx].parent # 0
        THEN Node_backpropagate(bumped, nodes[idx].parent, winner)
        ELSE bumped

\* ------------------------------------------------------------------ Tree
\* Tree.game is a reference: the field holds the number of the Kariba object.
\* The object made by the deepcopy of line 259 is number 0, and the one made
\* by the k-th reset_game is number k.
Tree(g, player) ==
    [ game                 |-> 0,
      player               |-> player,
      nodes                |-> << Node(g, player, NoEvent(g.n_species), 0) >>,
      root_node            |-> 1,
      current_node         |-> 1,
      is_on_rollout_policy |-> FALSE ]

\* index of the first maximum of a non-empty sequence of numbers (np.argmax)
argmax(seq) ==
    SetMin({k \in 1 .. Len(seq) : \A j \in 1 .. Len(seq) : seq[j] <= seq[k]})

Raised(self, what, g) == [tree |-> self, ev |-> NoEvent(g.n_species), err |-> what]

\* return_best_action that takes the first child, whatever the visit counts
Tree_select_first(self, g) ==
    LET cur  == self.nodes[self.current_node]
        kids == cur.children
    IN  IF Len(kids) = 0
        THEN Raised(self, "ValueError", g)
        ELSE LET best == self.nodes[kids[1]]
             IN  IF best.is_post_action_node
                 THEN [tree |-> self, ev |-> best.action, err |-> "ok"]
                 ELSE Raised(self, "AttributeError", g)

\* select_action(return_best_action=True)
Tree_select_best(self, g) ==
    LET cur  == self.nodes[self.current_node]
        kids == cur.children
    IN  IF Len(kids) = 0
        THEN Raised(self, "ValueError", g)
        ELSE LET best == self.nodes[kids[argmax([k \in 1 .. Len(kids) |-> self.nodes[kids[k]].n])]]
             IN  IF best.is_post_action_node
                 THEN [tree |-> self, ev |-> best.action, err |-> "ok"]
                 ELSE Raised(self, "AttributeError", g)

\* the max-UCB branch of select_action
Tree_select_ucb(self, g) ==
    LET cur  == self.nodes[self.current_node]
        kids == cur.children
        kid(k) == self.nodes[kids[k]]
    IN  IF \E k \in 1 .. Len(kids) : kid(k).is_post_action_node /\ kid(k).n = 0
        THEN Raised(self, "ZeroDivisionError", g)
        ELSE IF Len(kids) = 0
        THEN Raised(self, "ValueError", g)
        ELSE IF \E k \in 1 .. Len(kids) : ~kid(k).is_post_action_node
        THEN Raised(self, "TypeError", g)
        ELSE IF cur.n = 0
        THEN [tree |-> self, ev |-> kid(1).action, err |-> "ok"]
        ELSE [tree |-> self,
              ev   |-> kid(argmax([k \in 1 .. Len(kids) |-> ucb(kid(k), cur.n)])).action,
              err  |-> "ok"]

\* select_action that returns an untried action and leaves it in the list
Tree_select_action_keeps_untried(self, g) ==
    IF self.is_on_rollout_policy
    THEN LET acts == allowed_actions(g, self.player)
         IN  IF Len(acts) = 0
             THEN {Raised(self, "ValueError", g)}
             ELSE {[tree |-> self, ev |-> acts[k], err |-> "ok"] : k \in 1 .. Len(acts)}
    ELSE LET cur  == self.nodes[self.current_node]
             acts == allowed_actions(g, self.player)
             listed == IF cur.untried_actions.is_None /\ Len(cur.children) = 0
                       THEN [is_None |-> FALSE, items |-> {acts[k] : k \in 1 .. Len(acts)}]
                       ELSE cur.untried_actions
             seen == [self EXCEPT !.nodes[self.current_node].untried_actions = listed]
         IN  IF listed.is_None
             THEN {Raised(seen, "TypeError", g)}
             ELSE IF listed.items # {}
             THEN {[tree |-> seen, ev |-> a, err |-> "ok"] : a \in listed.items}
             ELSE {Tree_select_ucb(seen, g)}

\* select_action(): the set of outcomes the random choices allow
Tree_select_action(self, g) ==
    IF self.is_on_rollout_policy
    THEN LET acts == allowed_actions(g, self.player)
         IN  IF Len(acts) = 0
             THEN {Raised(self, "ValueError", g)}
             ELSE {[tree |-> self, ev |-> acts[k], err |-> "ok"] : k \in 1 .. Len(acts)}
    ELSE LET cur  == self.nodes[self.current_node]
             acts == allowed_actions(g, self.player)
             listed == IF cur.untried_actions.is_None /\ Len(cur.children) = 0
                       THEN [is_None |-> FALSE, items |-> {acts[k] : k \in 1 .. Len(acts)}]
                       ELSE cur.untried_actions
             seen == [self EXCEPT !.nodes[self.current_node].untried_actions = listed]
         IN  IF listed.is_None
             THEN {Raised(seen, "TypeError", g)}
             ELSE IF listed.items # {}
             THEN {[tree |-> [seen EXCEPT !.nodes[self.current_node].untried_actions.items = @ \ {a}],
                    ev   |-> a,
                    err  |-> "ok"] : a \in listed.items}
             ELSE {Tree_select_ucb(seen, g)}

\* apply_event that appends the new node and stays on the selection policy
Tree_apply_event_keeps_selecting(self, g, ev) ==
    IF self.is_on_rollout_policy THEN self
    ELSE LET new_node == Node(g, self.player, ev, self.current_node)
             existing == <<self.current_node>> \o self.nodes[self.current_node].children
             hits     == {k \in 1 .. Len(existing) :
                             is_equivalent_node(self.nodes[existing[k]], new_node)}
             fresh    == Len(self.nodes) + 1
         IN  IF hits # {}
             THEN [self EXCEPT !.current_node = existing[SetMin(hits)]]
             ELSE [self EXCEPT
                     !.nodes = Append([@ EXCEPT ![self.current_node].children = Append(@, fresh)],
                                      new_node),
                     !.current_node = fresh]

\* apply_event that tracks nodes on the rollout policy too
Tree_apply_event_in_rollout(self, g, ev) ==
    LET new_node == Node(g, self.player, ev, self.current_node)
        existing == <<self.current_node>> \o self.nodes[self.current_node].children
        hits     == {k \in 1 .. Len(existing) :
                        is_equivalent_node(self.nodes[existing[k]], new_node)}
        fresh    == Len(self.nodes) + 1
    IN  IF hits # {}
        THEN [self EXCEPT !.current_node = existing[SetMin(hits)]]
        ELSE [self EXCEPT
                !.nodes = Append([@ EXCEPT ![self.current_node].children = Append(@, fresh)],
                                 new_node),
                !.current_node = fresh,
                !.is_on_rollout_policy = TRUE]

\* Tree.apply_event; g is self.game, to which the event has been applied already
Tree_apply_event(self, g, ev) ==
    IF self.is_on_rollout_policy THEN self
    ELSE LET new_node == Node(g, self.player, ev, self.current_node)
             existing == <<self.current_node>> \o self.nodes[self.current_node].children
             hits     == {k \in 1 .. Len(existing) :
                             is_equivalent_node(self.nodes[existing[k]], new_node)}
             fresh    == Len(self.nodes) + 1
         IN  IF hits # {}
             THEN [self EXCEPT !.current_node = existing[SetMin(hits)]]
             ELSE [self EXCEPT
                     !.nodes = Append([@ EXCEPT ![self.current_node].children = Append(@, fresh)],
                                      new_node),
                     !.current_node = fresh,
                     !.is_on_rollout_policy = TRUE]

\* backpropagate that starts at the parent of the current node
Tree_backpropagate_from_parent(self, winner) ==
    IF self.nodes[self.current_node].parent = 0 THEN self
    ELSE [self EXCEPT !.nodes = Node_backpropagate(@, self.nodes[self.current_node].parent, winner)]

Tree_backpropagate(self, winner) ==
    [self EXCEPT !.nodes = Node_backpropagate(@, self.current_node, winner)]

\* reset_game that leaves tree.game at the object of the game just played
Tree_reset_keeps_game(self, new_game) ==
    [self EXCEPT !.current_node = self.root_node,
                 !.is_on_rollout_policy = FALSE]

\* the body of the for loop of reset_game; new_game is the number of the fresh copy
Tree_reset(self, new_game) ==
    [self EXCEPT !.game = new_game,
                 !.current_node = self.root_node,
                 !.is_on_rollout_policy = FALSE]

\* the Kariba object self.game refers to: the live game, or an abandoned one
Tree_game(self, live_id, live, old) ==
    IF self.game = live_id THEN live ELSE old[self.game]

\* ------------------------------------------------------------ Simulators
\* the trees' part of Simulators.apply_event: each tree reads its own self.game
Simulators_apply_event_trees(trees, live_id, live, old, ev) ==
    [player \in Players |->
        Tree_apply_event(trees[player], Tree_game(trees[player], live_id, live, old), ev)]

\* apply_event that hands the event to the trees before the game has applied it
Simulators_apply_event_trees_first(g, trees, live_id, old, ev) ==
    [game      |-> Kariba_apply_event(g, ev),
     tree_dict |-> Simulators_apply_event_trees(trees, live_id, g, old, ev)]

\* Simulators.apply_event: the game first, then every tree
Simulators_apply_event(g, trees, live_id, old, ev) ==
    LET after == Kariba_apply_event(g, ev)
    IN  [game      |-> after,
         tree_dict |-> Simulators_apply_event_trees(trees, live_id, after, old, ev)]

\* Simulators.reset_game: a fresh copy of reset_state becomes the live game
Simulators_reset_game(trees, new_game) ==
    [player \in Players |-> Tree_reset(trees[player], new_game)]

\* the abandoned objects that are still referred to after the live game changed
StillReferred(trees, old, live_id, live, new_game) ==
    [k \in {trees[player].game : player \in Players} \ {new_game} |->
        IF k = live_id THEN live ELSE old[k]]

Simulators_backpropagate(trees, winner) ==
    [player \in Players |-> Tree_backpropagate(trees[player], winner)]

\* ------------------------------------------------------------- history
\* deck plus every hand but the player's own, summed entry by entry
unseen(g, player) ==
    LET others == Players \ {player}
    IN  [j \in DOMAIN g.deck |->
           g.deck[j] + SumOver([q \in others |-> g.hands[q][j]], others)]

NoObs(g) ==
    [how |-> "none", from |-> 0, to |-> 0, post |-> FALSE,
     hand |-> Zeros(g.n_species), field |-> Zeros(g.n_species), jungle |-> Zeros(g.n_species)]

Observe(before, after, g, ev) ==
    [ how    |-> IF before.is_on_rollout_policy THEN "rollout"
                 ELSE IF Len(after.nodes) > Len(before.nodes) THEN "new" ELSE "match",
      from   |-> before.current_node,
      to     |-> after.current_node,
      post   |-> ev.kind = "action" /\ ev.who = before.player,
      hand   |-> g.hands[before.player],
      field  |-> g.field,
      jungle |-> unseen(g, before.player) ]

Recorded(trees, after, g, ev) ==
    \E seen \in {[player \in Players |-> Observe(trees[player], after[player], g, ev)]} :
        /\ obs' = seen
        /\ visited' = [player \in Players |-> visited[player] \cup {seen[player].to}]
        /\ passes' = [player \in Players |->
                        IF seen[player].how = "new"
                        THEN Append(passes[player], 0) ELSE passes[player]]
        /\ wins' = [player \in Players |->
                        IF seen[player].how = "new"
                        THEN Append(wins[player], 0) ELSE wins[player]]
        /\ moves' = [player \in Players |->
                        IF seen[player].how = "rollout" THEN moves[player]
                        ELSE moves[player] \cup
                             {<<seen[player].from, seen[player].hand, seen[player].field,
                                seen[player].jungle, g.deck, seen[player].to>>}]
        /\ made' = [player \in Players |->
                        made[player] + Len(after[player].nodes) - Len(trees[player].nodes)]
        /\ flips' = [player \in Players |->
                        IF ~trees[player].is_on_rollout_policy /\ after[player].is_on_rollout_policy
                        THEN flips[player] + 1 ELSE flips[player]]

\* ------------------------------------------------------------------ Init
Decks(n_species, most) ==
    {d \in [0 .. n_species - 1 -> 0 .. most] : np_sum(d) <= most}

\* the caller constructs a game: Kariba(deck=deck, n_species=.., max_n_hand=..)
Constructed(most_species, most_cards) ==
    /\ \E n_species \in 1 .. most_species, max_n_hand \in 1 .. MaxHand :
         \E deck \in Decks(n_species, most_cards) :
            real = Kariba(deck, 0, n_species, max_n_hand)
    /\ pc = "play_draw"
    /\ n = 0
    /\ i = 0
    /\ reset_state = real
    /\ game = real
    /\ tree_dict = [player \in Players |-> Tree(real, player)]
    /\ abandoned = <<>>
    /\ event = NoEvent(real.n_species)
    /\ result = [status |-> "none", what |-> "none", ev |-> NoEvent(real.n_species)]
    /\ prev = real
    /\ obs = [player \in Players |-> NoObs(real)]
    /\ visited = [player \in Players |-> {1}]
    /\ passes = [player \in Players |-> <<0>>]
    /\ moves = [player \in Players |-> {}]
    /\ made = [player \in Players |-> 0]
    /\ flips = [player \in Players |-> 0]
    /\ wins = [player \in Players |-> <<0>>]
    /\ turns = 0
    /\ drawn = NoEvent(real.n_species)

Init == Constructed(MaxSpecies, MaxDeck)

\* ------------------------------------------- the caller plays the real game
PlayDraw ==
    /\ pc = "play_draw"
    /\ ~is_final(real)
    /\ \E ev \in random_card_draw(real) :
          /\ real' = Kariba_apply_event(real, ev)
          /\ drawn' = ev
    /\ pc' = "play_act"
    /\ UNCHANGED <<event, search, prev, obs, visited, passes, moves, made, flips, wins, turns>>

PlayAction ==
    /\ pc = "play_act"
    /\ \E k \in 1 .. Len(allowed_actions(real, whose_turn(real))) :
          /\ event' = allowed_actions(real, whose_turn(real))[k]
          /\ real' = Kariba_apply_event(real, event')
    /\ prev' = real
    /\ pc' = "play_next"
    /\ UNCHANGED <<search, obs, visited, passes, moves, made, flips, wins, turns, drawn>>

PlayNextTurn ==
    /\ pc = "play_next"
    /\ real' = next_turn(real)
    /\ pc' = "play_draw"
    /\ UNCHANGED <<event, search, history>>

\* moismcts(root_state, n) up to the for loop: Simulators(copy.deepcopy(root_state)).
\* The argument n is any of 1 .. MaxIter.  Nothing reads n but the test of the
\* for loop, so the value is fixed where that test first tells the candidates
\* apart: ForIter is a run with n > i, Return the run with n = i.
Moismcts ==
    /\ pc \in {"play_draw", "play_act"}
    /\ n' = 0
    /\ i' = 0
    /\ reset_state' = real
    /\ game' = real
    /\ tree_dict' = [player \in Players |-> Tree(real, player)]
    /\ abandoned' = <<>>
    /\ pc' = "for"
    /\ prev' = real
    /\ obs' = [player \in Players |-> NoObs(real)]
    /\ visited' = [player \in Players |-> {1}]
    /\ passes' = [player \in Players |-> <<0>>]
    /\ moves' = [player \in Players |-> {}]
    /\ made' = [player \in Players |-> 0]
    /\ flips' = [player \in Players |-> 0]
    /\ wins' = [player \in Players |-> <<0>>]
    /\ turns' = 0
    /\ drawn' = NoEvent(real.n_species)
    /\ UNCHANGED <<real, event, result>>

\* ---------------------------------------------------------- the for loop
ForIter ==
    /\ pc = "for"
    /\ \E iters \in 1 .. MaxIter : i < iters
    /\ pc' = "while"
    /\ UNCHANGED <<real, event, search, history>>

RandomCardDraw ==
    /\ pc = "while"
    /\ ~is_final(game)
    /\ \E ev \in random_card_draw(game) :
         \E sim \in {Simulators_apply_event(game, tree_dict, i, abandoned, ev)} :
             /\ game' = sim.game
             /\ tree_dict' = sim.tree_dict
             /\ Recorded(tree_dict, sim.tree_dict, sim.game, ev)
             /\ drawn' = ev
    /\ pc' = "select"
    /\ UNCHANGED <<real, event, n, i, reset_state, abandoned, result, prev, turns>>

SelectAction ==
    /\ pc = "select"
    /\ \E out \in Tree_select_action(tree_dict[whose_turn(game)],
                                     Tree_game(tree_dict[whose_turn(game)], i, game, abandoned)) :
         /\ tree_dict' = [tree_dict EXCEPT ![whose_turn(game)] = out.tree]
         /\ event' = out.ev
         /\ IF out.err = "ok"
            THEN pc' = "apply" /\ UNCHANGED result
            ELSE /\ pc' = "done"
                 /\ result' = [status |-> "raised", what |-> out.err, ev |-> out.ev]
    /\ UNCHANGED <<real, n, i, reset_state, game, abandoned, history>>

ApplyAction ==
    /\ pc = "apply"
    /\ \E sim \in {Simulators_apply_event(game, tree_dict, i, abandoned, event)} :
           /\ game' = sim.game
           /\ tree_dict' = sim.tree_dict
           /\ Recorded(tree_dict, sim.tree_dict, sim.game, event)
    /\ prev' = game
    /\ pc' = "next_turn"
    /\ UNCHANGED <<real, event, n, i, reset_state, abandoned, result, turns, drawn>>

NextTurn ==
    /\ pc = "next_turn"
    /\ game' = next_turn(game)
    /\ pc' = "while"
    /\ turns' = turns + 1
    /\ UNCHANGED <<real, event, n, i, reset_state, tree_dict, abandoned, result,
                   prev, obs, visited, passes, moves, made, flips, wins, drawn>>

Backpropagate ==
    /\ pc = "while"
    /\ is_final(game)
    /\ tree_dict' = Simulators_backpropagate(tree_dict, leading_player(game))
    /\ passes' = [player \in Players |->
                    [k \in 1 .. Len(passes[player]) |->
                        IF k \in visited[player] THEN passes[player][k] + 1
                        ELSE passes[player][k]]]
    /\ wins' = [player \in Players |->
                    [k \in 1 .. Len(wins[player]) |->
                        IF k \in visited[player] /\ leading_player(game) = player
                        THEN wins[player][k] + 1
                        ELSE wins[player][k]]]
    /\ pc' = "reset"
    /\ UNCHANGED <<real, event, n, i, reset_state, game, abandoned, result,
                   prev, obs, visited, moves, made, flips, turns, drawn>>

ResetGame ==
    /\ pc = "reset"
    /\ game' = reset_state
    /\ tree_dict' = Simulators_reset_game(tree_dict, i + 1)
    /\ abandoned' = StillReferred(tree_dict', abandoned, i, game, i + 1)
    /\ i' = i + 1
    /\ pc' = "for"
    /\ prev' = reset_state
    /\ obs' = [player \in Players |-> NoObs(reset_state)]
    /\ visited' = [player \in Players |-> {tree_dict[player].root_node}]
    /\ made' = [player \in Players |-> 0]
    /\ flips' = [player \in Players |-> 0]
    /\ turns' = 0
    /\ UNCHANGED <<real, event, n, reset_state, result, passes, moves, wins, drawn>>

Return ==
    /\ pc = "for"
    /\ \E iters \in 1 .. MaxIter : i = iters /\ n' = iters
    /\ LET out == Tree_select_best(tree_dict[whose_turn(game)], game)
       IN  result' = [status |-> IF out.err = "ok" THEN "returned" ELSE "raised",
                      what   |-> out.err,
                      ev     |-> out.ev]
    /\ pc' = "done"
    /\ UNCHANGED <<real, event, i, reset_state, game, tree_dict, abandoned, history>>

Next ==
    \/ PlayDraw
    \/ PlayAction
    \/ PlayNextTurn
    \/ Moismcts
    \/ ForIter
    \/ RandomCardDraw
    \/ SelectAction
    \/ ApplyAction
    \/ NextTurn
    \/ Backpropagate
    \/ ResetGame
    \/ Return

Spec == Init /\ [][Next]_vars

\* moismcts and its caller are sequential code: a step that can be taken is taken
FairSpec == Spec /\ WF_vars(Next)

\* the rules engine alone, on larger games: the caller plays and never searches
InitKariba == Constructed(MaxSpecies + 1, MaxDeck + 2)

NextKariba ==
    \/ PlayDraw
    \/ PlayAction
    \/ PlayNextTurn

SpecKariba == InitKariba /\ [][NextKariba]_vars

\* ======================================================================
\* Properties
\* ======================================================================
Searching == pc \in {"for", "while", "select", "apply", "next_turn", "reset", "done"}

TheTree(player) == tree_dict[player]
RootOf(player) == TheTree(player).nodes[TheTree(player).root_node]
Cursor(player) == TheTree(player).nodes[TheTree(player).current_node]

Total(g) ==
    np_sum(g.deck) + np_sum(g.field)
    + SumOver([player \in Players |-> np_sum(g.hands[player])], Players)
    + SumOver(g.scoreboard, Players)

\* C1: card conservation.  In every state of the search, the cards of the
\* deck, the field and the hands plus all scoreboard entries of the live game
\* add up to what they add up to in the root state.
C1_CardConservation == Total(game) = Total(reset_state)

\* a chase has just scored in a simulated game that follows at least one reset
C1_Witness ==
    /\ pc = "next_turn"
    /\ i >= 1
    /\ game.scoreboard # prev.scoreboard
    /\ game.deck # reset_state.deck

\* the species an action on a may chase, given the field after the cards landed
ChaseTargets(n_species, mid, a) ==
    IF mid[a] < 3 THEN {}
    ELSE IF a = 0 THEN {n_species - 1}
    ELSE {f \in 0 .. a - 1 : mid[f] > 0 /\ \A h \in f + 1 .. a - 1 : mid[h] = 0}

ChaseRelation(pre, ev, post) ==
    LET a   == CHOOSE j \in DOMAIN ev.cards : ev.cards[j] > 0
        mid == [j \in DOMAIN pre.field |-> pre.field[j] + ev.cards[j]]
        T   == ChaseTargets(pre.n_species, mid, a)
    IN  /\ \A j \in DOMAIN ev.cards : j # a => ev.cards[j] = 0
        /\ post.deck = pre.deck
        /\ \A player \in Players :
              post.hands[player] =
                 IF player = ev.who
                 THEN [j \in DOMAIN ev.cards |-> pre.hands[player][j] - ev.cards[j]]
                 ELSE pre.hands[player]
        /\ IF T = {}
           THEN post.field = mid /\ post.scoreboard = pre.scoreboard
           ELSE \E f \in T :
                  /\ post.field = [mid EXCEPT ![f] = 0]
                  /\ post.scoreboard =
                        [pre.scoreboard EXCEPT ![whose_turn(pre)] = @ + mid[f]]

\* C2: chase effect.  An action on species a moves the cards from the actor's
\* hand to the field; if field[a] >= 3 afterwards, the target is the largest
\* f < a with field[f] > 0, or n_species-1 when a = 0; a target's cards go to
\* the score of the player on turn and field[f] becomes 0; nothing else changes.
C2_ChaseEffect ==
    /\ pc = "next_turn" => ChaseRelation(prev, event, game)
    /\ pc = "play_next" => ChaseRelation(prev, event, real)

\* an action on the last of three species has just chased the nearer of two
\* lower species that both had cards on the field
C2_Witness ==
    /\ pc = "play_next"
    /\ real.n_species = 3
    /\ event.cards[2] > 0
    /\ prev.field[0] > 0
    /\ prev.field[1] > 0
    /\ real.field[1] = 0
    /\ real.scoreboard # prev.scoreboard

\* the search returned a legal action of the player on turn, that of a most
\* visited child of that player's root
BestReturned ==
    LET player == whose_turn(reset_state)
        legal  == allowed_actions(reset_state, player)
        root   == RootOf(player)
    IN  /\ result.status = "returned"
        /\ result.ev.kind = "action"
        /\ result.ev.who = player
        /\ \E k \in 1 .. Len(legal) : legal[k] = result.ev
        /\ \E k \in 1 .. Len(root.children) :
              LET child == TheTree(player).nodes[root.children[k]]
              IN  /\ child.is_post_action_node
                  /\ child.action = result.ev
                  /\ \A j \in 1 .. Len(root.children) :
                        TheTree(player).nodes[root.children[j]].n <= child.n

\* C3 as stated: for any non-terminal root state and n >= 1 the
\* search returns an action of the player on turn that is legal in the root
\* state and is the action of a most visited child of that player's root.
C3_AnyRootReturnsBest ==
    (pc = "done" /\ ~is_final(reset_state)) => BestReturned

\* the root is not final and its first random_card_draw draws no card
RootHasDrawn == ~is_final(reset_state) /\ n_to_draw(reset_state) <= 0

\* C3 amended: for a non-terminal root state in which the player on turn has
\* drawn already, so that the first random_card_draw draws no card, the search
\* returns a legal action of that player, that of a most visited child of the
\* root; for a non-terminal root state in which that player has yet to draw,
\* the search returns no action and ends in an AttributeError.
C3_DrawnRootReturnsBest ==
    (pc = "done" /\ ~is_final(reset_state)) =>
       IF RootHasDrawn
       THEN BestReturned
       ELSE result.status = "raised" /\ result.what = "AttributeError"

\* the search returned the action of the second child of the root, which three
\* iterations visited more often than the first
C3_Witness ==
    /\ pc = "done"
    /\ RootHasDrawn
    /\ result.status = "returned"
    /\ n = 3
    /\ LET t    == TheTree(whose_turn(reset_state))
           kids == t.nodes[t.root_node].children
       IN  /\ Len(kids) >= 2
           /\ t.nodes[kids[2]].n > t.nodes[kids[1]].n
           /\ result.ev = t.nodes[kids[2]].action

\* C4: visit counts.  Every node's n is the number of completed iterations
\* whose cursor was at the node; every root has n equal to the number of
\* completed iterations; between iterations every other node has n >= 1.
C4_VisitCounts ==
    Searching =>
      \A player \in Players :
        LET t == TheTree(player)
        IN  /\ Len(passes[player]) = Len(t.nodes)
            /\ \A k \in 1 .. Len(t.nodes) : t.nodes[k].n = passes[player][k]
            /\ RootOf(player).n = IF pc = "reset" THEN i + 1 ELSE i
            /\ pc = "for" => \A k \in 1 .. Len(t.nodes) : k # t.root_node => t.nodes[k].n >= 1

\* after two iterations a tree holds a node both went through and a node one went through
C4_Witness ==
    /\ pc = "for"
    /\ i = 2
    /\ \E player \in Players :
         \E k, j \in 2 .. Len(TheTree(player).nodes) :
            TheTree(player).nodes[k].n = 2 /\ TheTree(player).nodes[j].n = 1

SameView(a, b) == a.hand = b.hand /\ a.field = b.field /\ a.jungle = b.jungle

\* C5: node merging.  Two cursor moves of one tree, made in selecting mode from
\* the same node to states with equal hand, field and unseen cards (deck plus
\* the other hands), end at the same node, however the unseen cards are split;
\* and no two children of one parent agree on hand, field and jungle.
C5_NodeMerging ==
    \A player \in Players :
       /\ \A m1, m2 \in moves[player] :
             (m1[1] = m2[1] /\ m1[2] = m2[2] /\ m1[3] = m2[3] /\ m1[4] = m2[4])
                => m1[6] = m2[6]
       /\ \A k \in 1 .. Len(TheTree(player).nodes) :
             LET kids == TheTree(player).nodes[k].children
             IN  \A c1, c2 \in 1 .. Len(kids) :
                    c1 # c2 => ~SameView(TheTree(player).nodes[kids[c1]],
                                         TheTree(player).nodes[kids[c2]])

\* two games moved a cursor from one node to one child with different decks
C5_Witness ==
    \E player \in Players :
       \E m1, m2 \in moves[player] :
          /\ m1[1] = m2[1] /\ m1[2] = m2[2] /\ m1[3] = m2[3] /\ m1[4] = m2[4]
          /\ m1[5] # m2[5]
          /\ m1[6] # m1[1]

NoCards(v) == \A j \in DOMAIN v : v[j] = 0

Terminal(g) == NoCards(g.deck) /\ \E player \in Players : NoCards(g.hands[player])

\* C6: terminal detection.  is_final is true exactly when the deck holds no
\* card and some player's hand holds no card; a turn starts only when is_final
\* is false, and the winner is backpropagated only when is_final is true.
C6_TerminalDetection ==
    /\ [](is_final(game) <=> Terminal(game))
    /\ [](is_final(real) <=> Terminal(real))
    /\ [][ /\ (pc = "while" /\ pc' = "select") => ~Terminal(game)
           /\ (pc = "play_draw" /\ pc' = "play_act") => ~Terminal(real)
           /\ (pc = "while" /\ pc' = "reset") => Terminal(game) ]_vars

\* a simulated game ended with the deck empty, one hand empty and one not
C6_Witness ==
    /\ pc = "reset"
    /\ Terminal(game)
    /\ \E player \in Players : ~NoCards(game.hands[player])

Listed(g, player) ==
    LET acts == allowed_actions(g, player)
        hand == g.hands[player]
    IN  /\ Len(acts) = np_sum(hand)
        /\ (Len(acts) = 0) <=> NoCards(hand)
        /\ \A k \in 1 .. Len(acts) :
              /\ acts[k].kind = "action"
              /\ acts[k].who = player
              /\ \E idx \in DOMAIN hand :
                    /\ acts[k].cards[idx] \in 1 .. hand[idx]
                    /\ \A j \in DOMAIN hand : j # idx => acts[k].cards[j] = 0
        /\ \A idx \in DOMAIN hand : \A cnt \in 1 .. hand[idx] :
              \E k \in 1 .. Len(acts) :
                 /\ acts[k].cards[idx] = cnt
                 /\ \A k2 \in 1 .. Len(acts) : acts[k2] = acts[k] => k2 = k

\* C7: legal actions.  allowed_actions(player) lists exactly one action per
\* (species, count) with 1 <= count <= hand[species], each by that player and
\* of that species only; their number is sum(hand); selecting changes no game.
C7_LegalActions ==
    /\ [](\A player \in Players : Listed(game, player) /\ Listed(real, player))
    /\ [][pc = "select" => (game' = game /\ real' = real)]_vars

\* select_action is asked while the player on turn holds two species
C7_Witness ==
    /\ pc = "select"
    /\ Cardinality(nonzero(game.hands[whose_turn(game)])) >= 2

Agree(node, seen, player) ==
    /\ node.player = player
    /\ node.is_post_action_node = seen.post
    /\ node.hand = seen.hand
    /\ node.field = seen.field
    /\ node.jungle = seen.jungle

\* C8: information-set equivalence.  In selecting mode the cursor moves to an
\* existing node only if that node and the candidate agree on player,
\* is_post_action_node, hand, field and jungle; otherwise a child is appended.
C8_InformationSetEquivalence ==
    \A player \in Players :
       LET seen == obs[player]
           t    == TheTree(player)
       IN  /\ seen.how = "match" => Agree(t.nodes[seen.to], seen, player)
           /\ seen.how = "new" =>
                 /\ seen.to = Len(t.nodes)
                 /\ ~Agree(t.nodes[seen.from], seen, player)
                 /\ \A k \in 1 .. Len(t.nodes[seen.from].children) :
                       t.nodes[seen.from].children[k] # seen.to
                          => ~Agree(t.nodes[t.nodes[seen.from].children[k]], seen, player)

\* C9 as stated: when a simulated game is over, every tree has
\* added exactly one node and has switched to rollout exactly once (stated
\* for the games that have at least one turn).
C9_ExactlyOneNodePerGame ==
    (pc = "reset" /\ ~is_final(reset_state)) =>
       \A player \in Players : made[player] = 1 /\ flips[player] = 1

\* C9 amended: in every simulated game every tree adds at most one node and
\* switches to rollout at most once, in the step that appends the node; a game
\* that ends while the tree is still selecting adds none.
C9_AtMostOneNodePerGame ==
    \A player \in Players :
       /\ made[player] \in {0, 1}
       /\ flips[player] = made[player]
       /\ TheTree(player).is_on_rollout_policy <=> made[player] = 1
       /\ obs[player].how = "new" => TheTree(player).is_on_rollout_policy

\* a simulated game of at least one turn is over in which one tree added a
\* node and the other none
C9_Witness ==
    /\ pc = "reset"
    /\ ~is_final(reset_state)
    /\ \E p1, p2 \in Players : made[p1] = 1 /\ made[p2] = 0

AtUcbBranch(t, g) ==
    LET cur == t.nodes[t.current_node]
    IN  /\ ~t.is_on_rollout_policy
        /\ \/ ~cur.untried_actions.is_None /\ cur.untried_actions.items = {}
           \/ /\ cur.untried_actions.is_None
              /\ Len(cur.children) = 0
              /\ Len(allowed_actions(g, t.player)) = 0

\* C10: UCB precondition.  When select_action reaches the max-UCB branch, the
\* cursor has a child, every child is a post-action node with n >= 1 and the
\* cursor has n >= 1.
C10_UcbPrecondition ==
    (pc = "select" /\ AtUcbBranch(TheTree(whose_turn(game)), game)) =>
       LET t   == TheTree(whose_turn(game))
           cur == t.nodes[t.current_node]
       IN  /\ Len(cur.children) >= 1
           /\ cur.n >= 1
           /\ \A k \in 1 .. Len(cur.children) :
                 /\ t.nodes[cur.children[k]].is_post_action_node
                 /\ t.nodes[cur.children[k]].n >= 1

\* select_action is at the max-UCB branch of a node with two children
C10_Witness ==
    /\ pc = "select"
    /\ AtUcbBranch(TheTree(whose_turn(game)), game)
    /\ Len(Cursor(whose_turn(game)).children) >= 2

\* the actions of the children of a node
ChildActions(t, node) ==
    {t.nodes[node.children[k]].action : k \in 1 .. Len(node.children)}

\* the legal actions of a player in a game, as a set
Legal(g, player) ==
    {allowed_actions(g, player)[k] : k \in 1 .. Len(allowed_actions(g, player))}

\* select_action is about to run in selecting mode on the tree of the player on turn
SelectingNow ==
    pc = "select" /\ ~TheTree(whose_turn(game)).is_on_rollout_policy

\* C11: try every action once.  Whenever select_action runs in selecting mode,
\* the cursor's untried list is enumerated already or the cursor has no child;
\* the legal actions of the tree's player in the live game are the disjoint
\* union of the untried actions (all of them, when the list is enumerated now)
\* and the actions of the cursor's children, one child per action; so the
\* max-UCB branch is reached only when every legal action has a child.
C11_TryEveryActionOnce ==
    SelectingNow =>
       LET player  == whose_turn(game)
           t       == TheTree(player)
           cur     == Cursor(player)
           untried == IF cur.untried_actions.is_None
                      THEN Legal(game, player) ELSE cur.untried_actions.items
           tried   == ChildActions(t, cur)
       IN  /\ ~cur.untried_actions.is_None \/ Len(cur.children) = 0
           /\ \A k \in 1 .. Len(cur.children) : t.nodes[cur.children[k]].is_post_action_node
           /\ Cardinality(tried) = Len(cur.children)
           /\ Legal(game, player) = untried \cup tried
           /\ untried \cap tried = {}
           /\ AtUcbBranch(t, game) => tried = Legal(game, player)

\* select_action runs at a node that has both a child and an untried action
C11_Witness ==
    /\ SelectingNow
    /\ Len(Cursor(whose_turn(game)).children) >= 1
    /\ ~Cursor(whose_turn(game)).untried_actions.is_None
    /\ Cursor(whose_turn(game)).untried_actions.items # {}

\* a tree with the statistics n and w of every node blanked
NoStats(t) ==
    [t EXCEPT !.nodes = [k \in 1 .. Len(t.nodes) |-> [t.nodes[k] EXCEPT !.n = 0, !.w = 0]]]

\* C12: rollout leaves the tree untouched.  Once a tree is in rolling_out mode,
\* no draw, select_action, apply_event or next_turn of the same simulated game
\* changes anything of the tree (nodes, child lists, cursor, untried lists,
\* n, w, mode); backpropagate changes only n and w; only reset_game ends the mode.
C12_RolloutFrame ==
    [][ \A player \in Players :
          (TheTree(player).is_on_rollout_policy /\ pc # "reset") =>
             IF pc = "while" /\ pc' = "reset"
             THEN NoStats(tree_dict'[player]) = NoStats(tree_dict[player])
             ELSE tree_dict'[player] = tree_dict[player] ]_vars

\* a player on the rollout policy has chosen an action and it has been applied
\* to that player's tree
C12_Witness ==
    /\ pc = "next_turn"
    /\ event.who = whose_turn(game)
    /\ obs[event.who].how = "rollout"
    /\ TheTree(event.who).is_on_rollout_policy

\* C13: reset.  After reset_game (and before the first game) the live game
\* equals the root state the search was given, every tree's cursor is its
\* root, every tree is in selecting mode and refers to the live game object;
\* reset_game changes no node; no step of the search changes reset_state.
C13_Reset ==
    /\ [](pc = "for" =>
            /\ game = real
            /\ reset_state = real
            /\ \A player \in Players :
                  /\ TheTree(player).current_node = TheTree(player).root_node
                  /\ ~TheTree(player).is_on_rollout_policy
                  /\ TheTree(player).game = i
                  /\ Tree_game(TheTree(player), i, game, abandoned) = game)
    /\ [][pc = "reset" =>
            \A player \in Players : tree_dict'[player].nodes = tree_dict[player].nodes]_vars
    /\ [][(Searching /\ Searching') => reset_state' = reset_state]_vars

\* the second reset has happened; a tree holds three nodes, one of them won
C13_Witness ==
    /\ pc = "for"
    /\ i = 2
    /\ prev = reset_state
    /\ \E player \in Players :
          /\ Len(TheTree(player).nodes) >= 3
          /\ \E k \in 1 .. Len(TheTree(player).nodes) : TheTree(player).nodes[k].w >= 1

\* C14: event fan-out order.  Right after Simulators.apply_event, every tree
\* that took the event in selecting mode has its cursor at a node whose hand,
\* field and jungle are those of the live game after the event, in the first
\* iteration and after resets alike; a node appended for an action is a
\* post-action node, holding that action, in the tree of the actor only, and a
\* node appended for a draw is neutral: the trees saw the same event.
C14_FanOutOrder ==
    pc \in {"select", "next_turn"} =>
       \A player \in Players :
          LET seen == obs[player]
              cur  == Cursor(player)
          IN  /\ seen.how \in {"new", "match", "rollout"}
              /\ seen.how \in {"new", "match"} =>
                    /\ seen.to = TheTree(player).current_node
                    /\ cur.hand = game.hands[player]
                    /\ cur.field = game.field
                    /\ cur.jungle = unseen(game, player)
              /\ seen.how = "new" =>
                    /\ cur.parent = seen.from
                    /\ cur.is_post_action_node <=> (pc = "next_turn" /\ event.who = player)
                    /\ cur.is_post_action_node => cur.action = event

\* in an iteration that follows a reset, an action has been applied for which
\* one tree appended a post-action node and the other a neutral node
C14_Witness ==
    /\ pc = "next_turn"
    /\ i >= 1
    /\ \A player \in Players : obs[player].how = "new"
    /\ \E player \in Players : Cursor(player).is_post_action_node

\* node k lies on the parent chain that starts at node from
RECURSIVE OnChain(_, _, _)
OnChain(nodes, from, k) ==
    \/ from = k
    \/ nodes[from].parent # 0 /\ OnChain(nodes, nodes[from].parent, k)

\* C15: win counts.  A backpropagation adds 1 to n on exactly the nodes of the
\* parent chain from the cursor to the root, and adds 1 to w on exactly the
\* post-action nodes of that chain when the tree's player is the winner; every
\* post-action node has 0 <= w <= n, and w is the number of completed
\* iterations that passed through the node and were won by the tree's player.
C15_WinCounts ==
    /\ [](Searching =>
            \A player \in Players :
               /\ Len(wins[player]) = Len(TheTree(player).nodes)
               /\ \A k \in 1 .. Len(TheTree(player).nodes) :
                     LET node == TheTree(player).nodes[k]
                     IN  /\ 0 <= node.w /\ node.w <= node.n
                         /\ node.is_post_action_node => node.w = wins[player][k]
                         /\ ~node.is_post_action_node => node.w = 0)
    /\ [][(pc = "while" /\ pc' = "reset") =>
            \A player \in Players :
               LET t == TheTree(player)
               IN  /\ Len(tree_dict'[player].nodes) = Len(t.nodes)
                   /\ \A k \in 1 .. Len(t.nodes) :
                         LET on  == OnChain(t.nodes, t.current_node, k)
                             won == on /\ t.nodes[k].is_post_action_node
                                       /\ leading_player(game) = player
                         IN  /\ tree_dict'[player].nodes[k].n =
                                    t.nodes[k].n + (IF on THEN 1 ELSE 0)
                             /\ tree_dict'[player].nodes[k].w =
                                    t.nodes[k].w + (IF won THEN 1 ELSE 0)]_vars

\* a tree holds a post-action node that two iterations passed through, both won
\* by its player, and a post-action node that its player never won at
C15_Witness ==
    /\ pc = "for"
    /\ \E player \in Players :
          \E k, j \in 1 .. Len(TheTree(player).nodes) :
             /\ TheTree(player).nodes[k].is_post_action_node
             /\ TheTree(player).nodes[k].n = 2
             /\ TheTree(player).nodes[k].w = 2
             /\ TheTree(player).nodes[j].is_post_action_node
             /\ TheTree(player).nodes[j].n >= 1
             /\ TheTree(player).nodes[j].w = 0

\* what random_card_draw may return for a game, against the stated contract
DrawContract(g) ==
    \A who \in {whose_turn(g)} :
    \A room \in {g.max_n_hand - np_sum(g.hands[who])} :
    \A stock \in {np_sum(g.deck)} :
    \A least \in {IF room < stock THEN room ELSE stock} :
    \A want \in {IF least <= 0 THEN 0 ELSE least} :
    \A draws \in {random_card_draw(g)} :
        /\ draws # {}
        /\ \A ev \in draws :
              /\ ev.kind = "deck_draw"
              /\ ev.who = who
              /\ np_sum(ev.cards) = want
              /\ \A j \in DOMAIN g.deck : ev.cards[j] >= 0 /\ ev.cards[j] <= g.deck[j]
              /\ \A after \in {Kariba_apply_event(g, ev)} :
                     /\ \A j \in DOMAIN g.deck : after.deck[j] >= 0
                     /\ room >= 0 => np_sum(after.hands[who]) <= g.max_n_hand
        /\ \A pool \in draw_pools(g.deck, Zeros(g.n_species), n_to_draw(g)) : pool > 0

\* C16: random draw.  For every game the search or the caller holds,
\* random_card_draw yields a deck_draw event of the player on turn with exactly
\* min(max_n_hand - hand size, sum(deck)) cards (none when that is <= 0) and
\* cards[i] <= deck[i]; every sample divides by a pool sum > 0; applying the
\* event leaves no negative deck entry and keeps the hand within max_n_hand.
C16_RandomDraw == DrawContract(game) /\ DrawContract(real)

\* a draw of the search has taken two cards of different species and left a
\* card in the deck
C16_Witness ==
    /\ pc = "select"
    /\ np_sum(game.deck) >= 1
    /\ np_sum(game.hands[whose_turn(game)]) = 2
    /\ Cardinality(nonzero(game.hands[whose_turn(game)])) = 2
    /\ np_sum(reset_state.hands[whose_turn(game)]) = 0

\* the cards of a game that can still be played: those in the deck and the hands
Unplayed(g) ==
    np_sum(g.deck) + SumOver([player \in Players |-> np_sum(g.hands[player])], Players)

\* C17 as stated: a simulated game has at most as many turns as the root state
\* has cards in deck and hands, and the search, when it ends, has returned
\* (stated for the root states that are not final).
C17_SearchReturns ==
    Searching =>
       /\ turns <= Unplayed(reset_state)
       /\ (pc = "done" /\ ~is_final(reset_state)) => result.status = "returned"

\* C17 amended: every simulated game has at most as many turns as the root
\* state has cards in deck and hands, because every action takes at least one
\* card out of the hands; every iteration ends and the call of moismcts ends:
\* it returns an action if the root state is not final and its player on turn
\* has drawn already, and it ends in an exception for every other root state.
C17_Termination ==
    /\ [](Searching => turns + Unplayed(game) <= Unplayed(reset_state))
    /\ [][pc = "apply" => Unplayed(game') < Unplayed(game)]_vars
    /\ [](pc = "done" => (result.status = "returned" <=> RootHasDrawn))
    /\ [](pc = "done" => result.status \in {"returned", "raised"})
    /\ \A k \in 0 .. MaxIter - 1 : (pc = "while" /\ i = k) ~> (pc = "for" /\ i = k + 1)
    /\ (pc = "for") ~> (pc = "done")

\* a simulated game is over after as many turns as the root state had cards
C17_Witness ==
    /\ pc = "reset"
    /\ is_final(game)
    /\ turns = Unplayed(reset_state)
    /\ turns >= 3

\* no entry of the deck, the field or a hand of the game is negative
NonNegative(g) ==
    \A j \in DOMAIN g.deck :
       /\ g.deck[j] >= 0
       /\ g.field[j] >= 0
       /\ \A player \in Players : g.hands[player][j] >= 0

\* C18: selected actions are legal.  Every action select_action returns in a
\* simulated game (popped from the untried list, taken from the max-UCB child
\* or chosen in rollout) is by the player on turn and is one of that player's
\* allowed_actions in the live game at that moment; and no entry of deck,
\* field or hand is ever negative.
C18_SelectedActionsLegal ==
    /\ pc = "apply" =>
          /\ event.who = whose_turn(game)
          /\ event \in Legal(game, whose_turn(game))
    /\ NonNegative(game)
    /\ NonNegative(real)

\* in a third iteration select_action has returned, on the selection policy,
\* the action of a child that an earlier iteration recorded
C18_Witness ==
    /\ pc = "apply"
    /\ i = 2
    /\ ~TheTree(whose_turn(game)).is_on_rollout_policy
    /\ event \in ChildActions(TheTree(whose_turn(game)), Cursor(whose_turn(game)))
    /\ Len(Cursor(whose_turn(game)).children) >= 2

\* the player on turn holds a card, so that player has an action to choose
HoldsCard(g) ==
    /\ np_sum(g.hands[whose_turn(g)]) >= 1
    /\ Len(allowed_actions(g, whose_turn(g))) >= 1

\* C19: non-empty hand at select.  Whenever an action is asked for (by the
\* search through select_action, or by the caller, after the draw of a turn
\* that started in a state that is not final), the player on turn holds at
\* least one card and allowed_actions is not empty; select_action never fails
\* for want of an action.
C19_HandNotEmptyAtSelect ==
    /\ pc = "select" =>
          /\ HoldsCard(game)
          /\ HoldsCard(Tree_game(TheTree(whose_turn(game)), i, game, abandoned))
    /\ pc = "play_act" => HoldsCard(real)
    /\ (pc = "done" /\ result.status = "raised" /\ ~is_final(reset_state))
          => result.what = "AttributeError"

\* select_action is asked, in a later iteration, in a game whose deck was empty
\* from the root on, so that no draw of the search ever took a card
C19_Witness ==
    /\ pc = "select"
    /\ i >= 1
    /\ np_sum(reset_state.deck) = 0
    /\ np_sum(game.hands[whose_turn(game)]) >= 1

\* two games differ at most in the deck and in the hand of one player
OnlyDeckAndHandOf(who, before, after) ==
    /\ after.field = before.field
    /\ after.scoreboard = before.scoreboard
    /\ after.whose_turn_ = before.whose_turn_
    /\ \A player \in Players \ {who} : after.hands[player] = before.hands[player]

\* C20: turn structure.  A turn of a simulated game is one deck_draw by the
\* player on turn, then one action by that same player, then next_turn, which
\* moves the turn index to (index + 1) mod number of players; no other step
\* moves it; every event applied is by the player on turn, and only that
\* player's hand and score change, so a chase is scored by who played the cards.
C20_TurnStructure ==
    [][ /\ pc = "while" =>
             \/ /\ pc' = "select"
                /\ drawn'.kind = "deck_draw"
                /\ drawn'.who = whose_turn(game)
                /\ game' = Kariba_apply_event(game, drawn')
                /\ OnlyDeckAndHandOf(whose_turn(game), game, game')
             \/ pc' = "reset" /\ game' = game
        /\ pc = "select" =>
             /\ game' = game
             /\ drawn' = drawn
             /\ pc' = "apply" =>
                   /\ event'.kind = "action"
                   /\ event'.who = whose_turn(game)
                   /\ event'.who = drawn.who
        /\ pc = "apply" =>
             /\ pc' = "next_turn"
             /\ event.who = whose_turn(game)
             /\ game'.whose_turn_ = game.whose_turn_
             /\ game'.deck = game.deck
             /\ \A player \in Players \ {event.who} :
                   /\ game'.hands[player] = game.hands[player]
                   /\ game'.scoreboard[player] = game.scoreboard[player]
             /\ game'.scoreboard[event.who] - game.scoreboard[event.who]
                   = np_sum(game.field) + np_sum(event.cards) - np_sum(game'.field)
        /\ pc = "next_turn" =>
             /\ pc' = "while"
             /\ game'.whose_turn_ = (game.whose_turn_ + 1) % Cardinality(Players)
             /\ game' = [game EXCEPT !.whose_turn_ = game'.whose_turn_]
        /\ (Searching /\ pc \notin {"next_turn", "reset"}) =>
             game'.whose_turn_ = game.whose_turn_ ]_vars

\* the second player of a simulated game has drawn, played and scored a chase
C20_Witness ==
    /\ pc = "next_turn"
    /\ turns >= 1
    /\ event.who = whose_turn(game)
    /\ event.who # whose_turn(reset_state)
    /\ drawn.who = event.who
    /\ np_sum(drawn.cards) >= 1
    /\ game.scoreboard[event.who] > prev.scoreboard[event.who]

====
